---- MODULE Spec2Model ----
(***************************************************************************)
(* The Home component of src/app/page.tsx (image-to-text converter) as a   *)
(* state machine: the six useState cells, the imageFileRef ref, the object *)
(* URLs handed out by URL.createObjectURL, and the processImage calls in   *)
(* flight with the tesseract.js worker each of them drives.                *)
(*                                                                         *)
(* One step is one browser task: a DOM event handler run to completion, or *)
(* the part of processImage between two awaits together with the render    *)
(* and effect cleanup React performs for it.                               *)
(*                                                                         *)
(* Strings built by template literals are sequences of their pieces:       *)
(* <<>> is '', <<"Idle">> is 'Idle', and `Failed to extract text: ${m}`    *)
(* is <<"Failed to extract text: ", m>>.                                   *)
(***************************************************************************)
EXTENDS Integers, Sequences, FiniteSets, TLC

VARIABLES
    selectedImage,   \* useState<string | null>: the preview object URL
    extractedText,   \* useState<string>
    progress,        \* useState<number>
    progressLabel,   \* useState<string>
    loading,         \* useState<boolean>
    error,           \* useState<string>
    imageFileRef,    \* useRef<File | null>
    urlsCreated,     \* number of URL.createObjectURL calls so far (URLs are 1..urlsCreated)
    urlsRevoked,     \* the object URLs passed to URL.revokeObjectURL
    jobs,            \* the accepted processImage calls, in call order
    lastOp           \* history: the handler or continuation that ran last

ui == <<selectedImage, extractedText, progress, progressLabel, loading, error>>
urls == <<urlsCreated, urlsRevoked>>
vars == <<selectedImage, extractedText, progress, progressLabel, loading, error,
          imageFileRef, urlsCreated, urlsRevoked, jobs, lastOp>>

----------------------------------------------------------------------------
(* Bounds of the model *)

\* accepted processImage calls explored
MaxJobs == 2
\* file selections (createObjectURL calls) explored
MaxSelect == 3

----------------------------------------------------------------------------
(* Values *)

NoFile == "null"
NoUrl == 0
NoText == "<pending>"

\* the files the user may pick
Files == {"receipt.png", "photo.jpg"}

\* the texts worker.recognize may resolve with
Texts == {"", "TOTAL $12.34"}

\* the values m.progress may take in a 'recognizing text' message, in thousandths
Fractions == {4, 255, 995}

\* the values createWorker, recognize or terminate may reject with: an Error
\* carrying a message, an Error with an empty message, a non-Error value that
\* carries a text (the string 'network error', or a plain object with that
\* message), and a non-Error value that carries none
Errs == { [isError |-> TRUE,  message |-> "network error"],
          [isError |-> TRUE,  message |-> ""],
          [isError |-> FALSE, message |-> "network error"],
          [isError |-> FALSE, message |-> ""] }

\* the m.status values of tesseract.js, in the order a session emits them
Statuses == << "loading tesseract core", "initializing tesseract",
               "loading language traineddata", "initializing api",
               "recognizing text", "done" >>

NoImageMsg == "Please select an image first to start conversion."

----------------------------------------------------------------------------
(* Pure helpers *)

\* Math.floor in place of Math.round
Round100_Floor(pm) == pm \div 10

\* Math.round(m.progress * 100) for m.progress = pm / 1000 (round half up)
Round100(pm) == (pm + 5) \div 10

\* JavaScript truthiness of a string: it is not ''
Truthy(s) == \E i \in 1..Len(s) : s[i] # ""

\* `Recognizing text: ${Math.round(m.progress * 100)}%`
RecognizingLabel(pm) == << "Recognizing text: ", ToString(Round100(pm)), "%" >>

\* the message the catch block shows for a caught value
ErrorText(err) ==
    IF err.isError
    THEN << "Failed to extract text: ", err.message >>
    ELSE << "Failed to extract text: An unexpected error occurred." >>

\* the convert button disabled only while no file is held: `|| loading` dropped
ButtonDisabled_NoBusy == imageFileRef = NoFile

\* the convert button disabled only while busy: `!imageFileRef.current ||` dropped
ButtonDisabled_NoFileCheck == loading

\* disabled={!imageFileRef.current || loading} of the convert button
ButtonDisabled == imageFileRef = NoFile \/ loading

\* {error && <p>...} : the error banner is rendered
ErrorBannerShown == Truthy(error)

\* {extractedText && <div>...} : the text area and the copy button are rendered
TextAreaShown == extractedText # ""

\* an effect cleanup that forgets URL.revokeObjectURL
EffectCleanup_NoRevoke(old, revoked) == revoked

\* the cleanup of useEffect(..., [selectedImage]) run for the previous value
EffectCleanup(old, revoked) ==
    IF old # NoUrl THEN revoked \cup {old} ELSE revoked

\* the object URLs created and not yet revoked
LiveUrls == (1..urlsCreated) \ urlsRevoked

----------------------------------------------------------------------------
(* Jobs: one record per accepted processImage call *)

NewJob == [ pc             |-> "create",  \* the await the call is suspended at
            created        |-> FALSE,     \* createWorker resolved: a session exists
            terminateCalls |-> 0,         \* worker.terminate() calls made
            phase          |-> 0,         \* index in Statuses of the last message
            frac           |-> 0,         \* m.progress of the last 'recognizing text'
            file           |-> NoFile,    \* the file passed to worker.recognize
            text           |-> NoText,    \* the text recognize resolved with
            failed         |-> FALSE ]    \* the catch block ran

JobIds == 1..Len(jobs)
ActiveJobs == { j \in JobIds : jobs[j].pc # "settled" }
LiveSessions == { j \in JobIds : jobs[j].created /\ jobs[j].terminateCalls = 0 }

Op(name, j) == [op |-> name, job |-> j]

----------------------------------------------------------------------------
(* Initial state: the first render of Home *)

Init ==
    /\ selectedImage = NoUrl
    /\ extractedText = ""
    /\ progress = 0
    /\ progressLabel = << "Idle" >>
    /\ loading = FALSE
    /\ error = << >>
    /\ imageFileRef = NoFile
    /\ urlsCreated = 0
    /\ urlsRevoked = {}
    /\ jobs = << >>
    /\ lastOp = Op("mount", 0)

----------------------------------------------------------------------------
(* handleImageChange, with the effect cleanup its re-render triggers *)

\* handleImageChange without its setProgress(0)
handleImageChange_NoProgressReset(file) ==
    IF file # NoFile
    THEN /\ urlsCreated < MaxSelect
         /\ imageFileRef' = file
         /\ urlsCreated' = urlsCreated + 1
         /\ selectedImage' = urlsCreated + 1
         /\ extractedText' = ""
         /\ progressLabel' = << "Idle" >>
         /\ error' = << >>
         /\ urlsRevoked' = EffectCleanup(selectedImage, urlsRevoked)
         /\ UNCHANGED <<progress, loading, jobs>>
         /\ lastOp' = [op |-> "select", job |-> 0, file |-> file]
    ELSE /\ UNCHANGED <<ui, imageFileRef, urls, jobs>>
         /\ lastOp' = Op("selectNone", 0)

handleImageChange(file) ==
    IF file # NoFile
    THEN /\ urlsCreated < MaxSelect
         /\ imageFileRef' = file
         /\ urlsCreated' = urlsCreated + 1
         /\ selectedImage' = urlsCreated + 1
         /\ extractedText' = ""
         /\ progress' = 0
         /\ progressLabel' = << "Idle" >>
         /\ error' = << >>
         /\ urlsRevoked' = EffectCleanup(selectedImage, urlsRevoked)
         /\ UNCHANGED <<loading, jobs>>
         /\ lastOp' = [op |-> "select", job |-> 0, file |-> file]
    ELSE /\ UNCHANGED <<ui, imageFileRef, urls, jobs>>
         /\ lastOp' = Op("selectNone", 0)

\* the change event of the file input: a file was chosen, or the choice was
\* emptied (event.target.files has no first element)
SelectImage == \E file \in Files \cup {NoFile} : handleImageChange(file)

----------------------------------------------------------------------------
(* processImage *)

\* a job start without its setError('')
StartJob_KeepsError ==
    /\ loading' = TRUE
    /\ extractedText' = ""
    /\ progress' = 0
    /\ progressLabel' = << "Loading Tesseract core..." >>
    /\ jobs' = Append(jobs, NewJob)
    /\ UNCHANGED <<error, selectedImage, imageFileRef, urls>>

\* a job start without its setExtractedText('')
StartJob_KeepsText ==
    /\ loading' = TRUE
    /\ progress' = 0
    /\ progressLabel' = << "Loading Tesseract core..." >>
    /\ error' = << >>
    /\ jobs' = Append(jobs, NewJob)
    /\ UNCHANGED <<extractedText, selectedImage, imageFileRef, urls>>

\* lines 54-58 and the createWorker call of line 64: the job starts
StartJob ==
    /\ loading' = TRUE
    /\ extractedText' = ""
    /\ progress' = 0
    /\ progressLabel' = << "Loading Tesseract core..." >>
    /\ error' = << >>
    /\ jobs' = Append(jobs, NewJob)
    /\ UNCHANGED <<selectedImage, imageFileRef, urls>>

\* processImage up to its first await
processImage ==
    IF imageFileRef = NoFile
    THEN /\ error' = << NoImageMsg >>
         /\ UNCHANGED <<selectedImage, extractedText, progress, progressLabel,
                        loading, imageFileRef, urls, jobs>>
    ELSE StartJob

\* a click on the convert button: the browser dispatches it to onClick only
\* when the button is not disabled
ClickConvert ==
    /\ Len(jobs) < MaxJobs
    /\ lastOp' = Op("click", 0)
    /\ IF ButtonDisabled
       THEN UNCHANGED <<ui, imageFileRef, urls, jobs>>
       ELSE processImage

\* the logger callback given to createWorker
logger(m) ==
    IF m.status = "recognizing text"
    THEN /\ progress' = Round100(m.progress)
         /\ progressLabel' = RecognizingLabel(m.progress)
    ELSE IF m.status = "loading tesseract core"
    THEN /\ progressLabel' = << "Loading Tesseract core..." >>
         /\ UNCHANGED progress
    ELSE IF m.status = "initializing tesseract"
    THEN /\ progressLabel' = << "Initializing Tesseract..." >>
         /\ UNCHANGED progress
    ELSE IF m.status = "loading language traineddata"
    THEN /\ progressLabel' = << "Loading language data..." >>
         /\ UNCHANGED progress
    ELSE IF m.status = "done"
    THEN /\ progressLabel' = << "Finishing up..." >>
         /\ UNCHANGED progress
    ELSE UNCHANGED <<progress, progressLabel>>

\* the session of job j reports its next message: the load messages while
\* createWorker is pending, 'recognizing text' with a fraction that does not
\* go down and then 'done' while recognize is pending
LoggerEvent(j, k, f) ==
    /\ jobs[j].pc \in {"create", "recognize"}
    /\ jobs[j].pc = "create" => k \in 1..4 /\ k > jobs[j].phase /\ f = 0
    /\ jobs[j].pc = "recognize" =>
          /\ k \in 5..6
          /\ jobs[j].phase < 6
          /\ IF k = 5 THEN f \in Fractions /\ f >= jobs[j].frac ELSE f = 0
    /\ logger([status |-> Statuses[k], progress |-> f])
    /\ jobs' = [jobs EXCEPT ![j].phase = k,
                            ![j].frac = IF k = 5 THEN f ELSE @]
    /\ UNCHANGED <<selectedImage, extractedText, loading, error, imageFileRef, urls>>
    /\ lastOp' = [op |-> "logger", job |-> j, status |-> Statuses[k], progress |-> f]

\* a catch block without its setExtractedText('')
CatchBlock_KeepsText(err) ==
    /\ error' = ErrorText(err)
    /\ progress' = 0
    /\ progressLabel' = << "Error" >>
    /\ UNCHANGED extractedText

\* a catch block without its setProgress(0)
CatchBlock_NoProgressReset(err) ==
    /\ error' = ErrorText(err)
    /\ extractedText' = ""
    /\ progressLabel' = << "Error" >>
    /\ UNCHANGED progress

\* the catch block of processImage
CatchBlock(err) ==
    /\ error' = ErrorText(err)
    /\ extractedText' = ""
    /\ progress' = 0
    /\ progressLabel' = << "Error" >>

\* a finally block without its setLoading(false)
FinallyBlock_KeepsBusy == UNCHANGED loading

\* the finally block of processImage
FinallyBlock == loading' = FALSE

\* createWorker resolves: line 85 calls worker.recognize(imageFileRef.current)
CreateWorkerResolves(j) ==
    /\ jobs[j].pc = "create"
    /\ jobs' = [jobs EXCEPT ![j].pc = "recognize",
                            ![j].created = TRUE,
                            ![j].file = imageFileRef]
    /\ UNCHANGED <<ui, imageFileRef, urls>>
    /\ lastOp' = Op("workerCreated", j)

\* createWorker rejects: catch, finally
CreateWorkerRejects(j, err) ==
    /\ jobs[j].pc = "create"
    /\ CatchBlock(err)
    /\ FinallyBlock
    /\ jobs' = [jobs EXCEPT ![j].pc = "settled", ![j].failed = TRUE,
                            ![j].phase = 0, ![j].frac = 0]
    /\ UNCHANGED <<selectedImage, imageFileRef, urls>>
    /\ lastOp' = [op |-> "createFailed", job |-> j, err |-> err]

\* recognize resolves with text t: lines 87-93, up to the await of terminate
RecognizeResolves(j, t) ==
    /\ jobs[j].pc = "recognize"
    /\ extractedText' = t
    /\ progress' = 100
    /\ progressLabel' = << "Done!" >>
    /\ jobs' = [jobs EXCEPT ![j].pc = "terminate",
                            ![j].text = t,
                            ![j].terminateCalls = @ + 1,
                            ![j].phase = 0, ![j].frac = 0]
    /\ UNCHANGED <<selectedImage, loading, error, imageFileRef, urls>>
    /\ lastOp' = Op("recognized", j)

\* recognize rejects: catch, finally
RecognizeRejects(j, err) ==
    /\ jobs[j].pc = "recognize"
    /\ CatchBlock(err)
    /\ FinallyBlock
    /\ jobs' = [jobs EXCEPT ![j].pc = "settled", ![j].failed = TRUE,
                            ![j].phase = 0, ![j].frac = 0]
    /\ UNCHANGED <<selectedImage, imageFileRef, urls>>
    /\ lastOp' = [op |-> "recognizeFailed", job |-> j, err |-> err]

\* terminate resolves: finally
TerminateResolves(j) ==
    /\ jobs[j].pc = "terminate"
    /\ FinallyBlock
    /\ jobs' = [jobs EXCEPT ![j].pc = "settled"]
    /\ UNCHANGED <<selectedImage, extractedText, progress, progressLabel, error,
                   imageFileRef, urls>>
    /\ lastOp' = Op("terminated", j)

\* terminate rejects: catch, finally
TerminateRejects(j, err) ==
    /\ jobs[j].pc = "terminate"
    /\ CatchBlock(err)
    /\ FinallyBlock
    /\ jobs' = [jobs EXCEPT ![j].pc = "settled", ![j].failed = TRUE]
    /\ UNCHANGED <<selectedImage, imageFileRef, urls>>
    /\ lastOp' = [op |-> "terminateFailed", job |-> j, err |-> err]

----------------------------------------------------------------------------
(* Specifications *)

Progress == \E j \in JobIds, k \in 1..6, f \in Fractions \cup {0} : LoggerEvent(j, k, f)
WorkerCreated == \E j \in JobIds : CreateWorkerResolves(j)
WorkerFailed == \E j \in JobIds, err \in Errs : CreateWorkerRejects(j, err)
Recognized == \E j \in JobIds, t \in Texts : RecognizeResolves(j, t)
RecognizeFailed == \E j \in JobIds, err \in Errs : RecognizeRejects(j, err)
Terminated == \E j \in JobIds : TerminateResolves(j)
TerminateFailed == \E j \in JobIds, err \in Errs : TerminateRejects(j, err)

\* a pending collaborator call settles
Settle ==
    \/ WorkerCreated
    \/ WorkerFailed
    \/ Recognized
    \/ RecognizeFailed
    \/ Terminated
    \/ TerminateFailed

Next ==
    \/ SelectImage
    \/ ClickConvert
    \/ Progress
    \/ WorkerCreated
    \/ WorkerFailed
    \/ Recognized
    \/ RecognizeFailed
    \/ Terminated
    \/ TerminateFailed

Spec == Init /\ [][Next]_vars

\* every collaborator call eventually settles
FairSpec == Spec /\ WF_vars(Settle)

TypeOK ==
    /\ selectedImage \in 0..urlsCreated
    /\ extractedText \in Texts
    /\ progress \in 0..100
    /\ loading \in BOOLEAN
    /\ imageFileRef \in Files \cup {NoFile}
    /\ urlsCreated \in 0..MaxSelect
    /\ urlsRevoked \subseteq 1..urlsCreated
    /\ Len(jobs) <= MaxJobs

----------------------------------------------------------------------------
(* Properties *)

\* the ConversionJob status a progress label stands for
StatusOf(label) ==
    CASE label = << "Idle" >>                      -> "Idle"
      [] label = << "Loading Tesseract core..." >> -> "LoadingEngine"
      [] label = << "Initializing Tesseract..." >> -> "Initializing"
      [] label = << "Loading language data..." >>  -> "LoadingModel"
      [] label = << "Finishing up..." >>           -> "Finishing"
      [] label = << "Done!" >>                     -> "Done"
      [] label = << "Error" >>                     -> "Failed"
      [] OTHER                                     -> "Recognizing"

\* the place of a status in Idle -> LoadingEngine -> ... -> Done
Rank(status) ==
    CASE status = "Idle"          -> 0
      [] status = "LoadingEngine" -> 1
      [] status = "Initializing"  -> 2
      [] status = "LoadingModel"  -> 3
      [] status = "Recognizing"   -> 4
      [] status = "Finishing"     -> 5
      [] status = "Done"          -> 6
      [] status = "Failed"        -> 7

\* the step is taken while a job is suspended at an await and neither starts
\* nor settles a job
InsideJob == ActiveJobs # {} /\ ActiveJobs' = ActiveJobs

\* C1: at most one conversion job is in flight at any time, and a click on
\* convert made while a job is active is rejected: it starts no job, creates
\* no session and leaves progress, label, text, error and the busy flag alone.
C1_OneJobInFlight ==
    /\ [](Cardinality(ActiveJobs) <= 1)
    /\ [][ (lastOp'.op = "click" /\ ActiveJobs # {})
              => UNCHANGED <<ui, imageFileRef, urls, jobs>> ]_vars

\* a click made while the one job is waiting for recognize, progress reported
C1_RejectedClick ==
    /\ lastOp.op = "click"
    /\ \E j \in ActiveJobs : jobs[j].pc = "recognize"
    /\ loading
    /\ progress > 0

\* C2: every session createWorker created has had terminate called exactly
\* once by the time its job has settled, whichever way the job ended.
C2_TerminatedExactlyOnce ==
    \A j \in JobIds :
        (jobs[j].pc = "settled" /\ jobs[j].created) => jobs[j].terminateCalls = 1

\* C3: right after a job settles because createWorker or recognize rejected,
\* the text is empty, progress is 0, the error is non-empty and the label is
\* 'Error'.
C3_FailedState ==
    lastOp.op \in {"createFailed", "recognizeFailed"} =>
        /\ extractedText = ""
        /\ progress = 0
        /\ Truthy(error)
        /\ StatusOf(progressLabel) = "Failed"

\* recognize rejected for a job whose session had been created
C3_RecognitionFailed ==
    /\ lastOp.op = "recognizeFailed"
    /\ jobs[lastOp.job].created
    /\ jobs[lastOp.job].failed

\* C4: the busy flag is set for as long as a job is active, and every job
\* that started is followed by a state in which the busy flag is clear,
\* given that each pending collaborator call settles.
C4_BusyUntilSettled ==
    /\ [](ActiveJobs # {} => loading)
    /\ (ActiveJobs # {}) ~> (~loading)

\* a job whose terminate rejected has settled and cleared the busy flag
C4_SettledAfterTerminateFailure ==
    /\ lastOp.op = "terminateFailed"
    /\ jobs[lastOp.job].pc = "settled"
    /\ ~loading

\* C5: a selection with a file leaves the text empty, progress 0, the label
\* 'Idle' and the error empty, holds that file, and previews an object URL
\* that was never issued before and is live; a selection with no file
\* changes nothing.
C5_SelectionResets ==
    [][ /\ lastOp'.op = "select" =>
            /\ extractedText' = ""
            /\ progress' = 0
            /\ StatusOf(progressLabel') = "Idle"
            /\ ~Truthy(error')
            /\ imageFileRef' = lastOp'.file
            /\ selectedImage' \notin 0..urlsCreated
            /\ selectedImage' \in LiveUrls'
        /\ lastOp'.op = "selectNone" =>
            UNCHANGED <<ui, imageFileRef, urls, jobs>> ]_vars

\* a file was selected while a job was waiting for recognize
C5_SelectedDuringJob ==
    /\ lastOp.op = "select"
    /\ \E j \in ActiveJobs : jobs[j].pc = "recognize"

\* C6 as stated: a click on convert before any image was selected shows the
\* 'Please select an image first...' error and creates no job.
C6_ErrorShownWithoutImage ==
    (lastOp.op = "click" /\ urlsCreated = 0) =>
        /\ error = << NoImageMsg >>
        /\ jobs = << >>
        /\ ~loading
        /\ progress = 0 /\ progressLabel = << "Idle" >> /\ extractedText = ""

\* C6: before any image was selected the convert button is disabled, so a
\* click on it does not reach processImage: no error is shown and no job is
\* created (no session, busy flag clear, progress, label and text as they
\* were).
C6_ClickWithoutImageIgnored ==
    (lastOp.op = "click" /\ urlsCreated = 0) =>
        /\ error = << >>
        /\ jobs = << >>
        /\ ~loading
        /\ progress = 0 /\ progressLabel = << "Idle" >> /\ extractedText = ""

\* convert was clicked before any image was selected
C6_ClickedWithoutImage ==
    /\ lastOp.op = "click"
    /\ urlsCreated = 0
    /\ imageFileRef = NoFile

\* C7: a job whose recognize resolved with text T settles with the label
\* 'Done!', progress 100 and T as the extracted text.
C7_DoneAfterRecognition ==
    lastOp.op \in {"terminated", "terminateFailed"} =>
        /\ StatusOf(progressLabel) = "Done"
        /\ progress = 100
        /\ extractedText = jobs[lastOp.job].text

\* C8: progress is always in 0..100 and no step taken inside a job lowers it.
C8_ProgressMonotone ==
    /\ [](progress \in 0..100)
    /\ [][ InsideJob => progress' >= progress ]_vars

\* C9: once an image has been selected, the one live object URL is the one
\* created by the latest selection, it is the one the preview shows, and
\* every earlier one has been revoked.
C9_OneLiveUrl ==
    urlsCreated >= 1 =>
        /\ LiveUrls = {urlsCreated}
        /\ selectedImage = urlsCreated
        /\ selectedImage \notin urlsRevoked
        /\ \A u \in 1..(urlsCreated - 1) : u \in urlsRevoked

\* a second or later selection has just been made
C9_Reselected ==
    /\ lastOp.op = "select"
    /\ urlsCreated >= 2

\* C10: inside a job the status never moves to an earlier place of
\* Idle -> LoadingEngine -> Initializing -> LoadingModel -> Recognizing -> Done,
\* and Failed is never entered from Done or Failed.
C10_LinearStatus ==
    [][ /\ (InsideJob /\ StatusOf(progressLabel') # "Failed")
            => Rank(StatusOf(progressLabel')) >= Rank(StatusOf(progressLabel))
        /\ (StatusOf(progressLabel') = "Failed" /\ progressLabel' # progressLabel)
            => StatusOf(progressLabel) \notin {"Done", "Failed"} ]_vars

\* the generic message of the catch block
FallbackText == << "Failed to extract text: An unexpected error occurred." >>

\* C11: when createWorker or recognize rejects with a value that carries an
\* error text M, the error shown contains M, and the generic fallback is shown
\* only when the rejected value carries no text.
C11_ErrorFromCollaboratorText ==
    lastOp.op \in {"createFailed", "recognizeFailed"} =>
        /\ lastOp.err.message # "" =>
              \E i \in 1..Len(error) : error[i] = lastOp.err.message
        /\ error = FallbackText => lastOp.err.message = ""

\* the last processImage call has settled through the catch block
LastJobFailed ==
    /\ jobs # << >>
    /\ jobs[Len(jobs)].pc = "settled"
    /\ jobs[Len(jobs)].failed

\* C12: right after a job fails the busy flag is clear, the file is still
\* held and the convert button is enabled; and a click on convert made after a
\* failed job, with the same image or after a new selection, starts a new job
\* and clears the error.
C12_RetryAfterFailure ==
    /\ [](lastOp.op \in {"createFailed", "recognizeFailed", "terminateFailed"}
            => ~loading /\ imageFileRef # NoFile /\ ~ButtonDisabled)
    /\ [][ (lastOp'.op = "click" /\ LastJobFailed)
              => /\ Len(jobs') = Len(jobs) + 1
                 /\ jobs'[Len(jobs')].pc = "create"
                 /\ loading'
                 /\ ~Truthy(error') ]_vars

\* a job was started after the job before it had failed
C12_Retried ==
    /\ Len(jobs) >= 2
    /\ jobs[Len(jobs) - 1].failed
    /\ jobs[Len(jobs)].pc = "create"
    /\ lastOp.op = "click"
    /\ loading
    /\ ~Truthy(error)

\* C13: after a 'recognizing text' message with fraction p the progress shown
\* is the whole number nearest to 100 * p of that message (halves up), and the
\* engine-load, initialization and model-load messages set the status to
\* LoadingEngine, Initializing and LoadingModel and leave progress as it was.
C13_LatestProgressApplied ==
    [][ lastOp'.op = "logger" =>
          /\ lastOp'.status = "recognizing text" =>
                /\ 10 * progress' - 5 <= lastOp'.progress
                /\ lastOp'.progress <= 10 * progress' + 4
          /\ lastOp'.status = "loading tesseract core" =>
                StatusOf(progressLabel') = "LoadingEngine" /\ progress' = progress
          /\ lastOp'.status = "initializing tesseract" =>
                StatusOf(progressLabel') = "Initializing" /\ progress' = progress
          /\ lastOp'.status = "loading language traineddata" =>
                StatusOf(progressLabel') = "LoadingModel" /\ progress' = progress ]_vars

\* a 'recognizing text' message with fraction 0.255 has been applied, after
\* the load messages of the same session
C13_RoundedUp ==
    /\ lastOp.op = "logger"
    /\ lastOp.status = "recognizing text"
    /\ lastOp.progress = 255
    /\ progress = 26
    /\ jobs[lastOp.job].created

\* C14: whenever the status is Done the text area and the copy button are
\* rendered, whatever text recognize returned, and they are not rendered when
\* the status is Failed or Idle.
C14_TextAreaWhenDone ==
    /\ StatusOf(progressLabel) = "Done" => TextAreaShown
    /\ StatusOf(progressLabel) \in {"Failed", "Idle"} => ~TextAreaShown

\* C15: a click that processImage accepts (a file is held, the button is
\* enabled), from any state, leaves the text and the error empty, progress 0,
\* the status LoadingEngine and the busy flag set, with a new job that has no
\* session yet; and the text becomes non-empty only in a step in which
\* recognize resolves, while a selection leaves it empty.
C15_JobStartResets ==
    [][ /\ (lastOp'.op = "click" /\ ~ButtonDisabled) =>
              /\ extractedText' = ""
              /\ ~Truthy(error')
              /\ progress' = 0
              /\ StatusOf(progressLabel') = "LoadingEngine"
              /\ loading'
              /\ Len(jobs') = Len(jobs) + 1
              /\ jobs'[Len(jobs')].pc = "create"
              /\ ~jobs'[Len(jobs')].created
        /\ (extractedText' # "" /\ extractedText' # extractedText) =>
              lastOp'.op = "recognized"
        /\ lastOp'.op = "select" => extractedText' = "" ]_vars

\* a second job has been started after the first one had produced a text
C15_RestartedAfterDone ==
    /\ lastOp.op = "click"
    /\ Len(jobs) >= 2
    /\ jobs[Len(jobs) - 1].text \notin {NoText, ""}
    /\ ~jobs[Len(jobs) - 1].failed
    /\ jobs[Len(jobs)].pc = "create"
    /\ jobs[Len(jobs)].phase = 0
    /\ extractedText = ""

\* the processImage call that stored the extracted text last
TextJob ==
    CHOOSE j \in JobIds :
        /\ jobs[j].text # NoText
        /\ \A k \in JobIds : jobs[k].text # NoText => k <= j

\* C16: whenever a text is displayed, it was recognized from the file that is
\* selected now.
C16_TextOfSelectedImage ==
    extractedText # "" => jobs[TextJob].file = imageFileRef

\* C17: the error and the extracted text are never both non-empty.
C17_ErrorXorText == ~(ErrorBannerShown /\ TextAreaShown)

\* a text is displayed by a job that followed a failed one
C17_TextAfterFailure ==
    /\ TextAreaShown
    /\ \E j \in JobIds : jobs[j].failed
    /\ ~ErrorBannerShown

====
